---- MODULE Spec2Model ----
(***************************************************************************)
(* ControlTower: the atomic transaction orchestrator                       *)
(* (app/middleware/transaction.py), the unit-of-work repository contract   *)
(* (app/repositories/base.py), the composite create-agent operation        *)
(* (app/services/ai_agent_service.py, workflow_service.py) and the         *)
(* authorization gate (app/services/authorization_service.py,              *)
(* app/middleware/authorization.py).                                       *)
(***************************************************************************)
EXTENDS Integers, Sequences, FiniteSets, TLC

(* ---------------------------- bounds ----------------------------------- *)

\* longest list of steps handed to execute_atomic
MaxSteps == 2

\* longest body of a request in the context-scoping specification
MaxCtxSteps == 2

(* ---------------------------- universe --------------------------------- *)

Requests == {"r1", "r2"}

\* the event-loop thread (async endpoints) and one worker thread per
\* in-flight sync request
Threads == {"loop"} \cup Requests

NoId == <<"none", 0, "none">>

InitAgentId == <<"init", 0, "agent">>

MissingId == <<"init", 0, "missing">>

\* return values of repository and service calls: an entity (by id), None,
\* or a boolean
RetId(id) == [k |-> "entity", id |-> id, b |-> FALSE]

RetNone == [k |-> "None", id |-> NoId, b |-> FALSE]

RetBool(b) == [k |-> "bool", id |-> NoId, b |-> b]

Row(tbl, name, id, v, ref) ==
    [tbl |-> tbl, name |-> name, id |-> id, v |-> v, ref |-> ref]

\* the store before any request: one agent named "x"
InitRows == { Row("ai_agents", "x", InitAgentId, 0, NoId) }

\* the three values of the auto_commit parameter: None, True, False
AutoCommitArgs == {"default", "commit", "defer"}

EmptySession == [adds |-> {}, dels |-> {}]

\* a database handle as one call sees it: the committed store c, the
\* session's flushed but uncommitted inserts and deletes, the number n of
\* commits the session issued, what those commits persisted, and a log of
\* the repository writes made through it
Db(c, s, n, e, l) ==
    [c |-> c, adds |-> s.adds, dels |-> s.dels, n |-> n,
     eadds |-> e.adds, edels |-> e.dels, log |-> l]

(* ------------------------ Session primitives --------------------------- *)

\* what a query on the session returns: committed rows plus the session's
\* own flushed writes
SessionView(d) == (d.c \ d.dels) \cup d.adds

SessionCommit(d) ==
    [d EXCEPT !.c = (d.c \ d.dels) \cup d.adds,
              !.adds = {}, !.dels = {},
              !.n = d.n + 1,
              !.eadds = d.eadds \cup d.adds,
              !.edels = d.edels \cup (d.dels \cap d.c)]

SessionRollback(d) == [d EXCEPT !.adds = {}, !.dels = {}]

SessionAdd(d, row) == [d EXCEPT !.adds = @ \cup {row}]

SessionDelete(d, row) ==
    IF row \in d.adds THEN [d EXCEPT !.adds = @ \ {row}]
    ELSE [d EXCEPT !.dels = @ \cup {row}]

(* ------------------------ BaseRepository ------------------------------- *)

\* a repository that commits unless told to defer, whatever the context
ResolveAutoCommit_IgnoresContext(ac, flag) == ac # "defer"

\* a repository that follows the context whatever the caller passed
ResolveAutoCommit_ContextWins(ac, flag) == ~flag

\* auto_commit = not is_in_transaction() when the caller passed None
ResolveAutoCommit(ac, flag) ==
    IF ac = "default" THEN ~flag ELSE ac = "commit"

get_by_id(d, id) == { row \in SessionView(d) : row.id = id }

get_by_name_and_organization(d, tbl, name) ==
    { row \in SessionView(d) : row.tbl = tbl /\ row.name = name }

\* the outcome of one repository or service call
Outcome(d, exc, ret) == [db |-> d, exc |-> exc, ret |-> ret]

\* one repository write: the operation, the auto_commit argument it was
\* given, the transaction flag it observed, and whether it committed
Logged(d, w, ac, flag, auto) ==
    [d EXCEPT !.log = @ \cup {[w |-> w, ac |-> ac, flag |-> flag, committed |-> auto]}]

RepoCreate(d0, row, ac, flag, fail) ==
    LET auto == ResolveAutoCommit(ac, flag)
        d == Logged(d0, "create", ac, flag, auto) IN
    IF fail
    THEN Outcome(IF auto THEN SessionRollback(d) ELSE d, "IntegrityError", RetNone)
    ELSE LET d1 == SessionAdd(d, row) IN
         Outcome(IF auto THEN SessionCommit(d1) ELSE d1, "none", RetId(row.id))

\* BaseRepository.update: None when the entity is not there; fail: the
\* store rejects the changed row, and the except clause rolls back only
\* when auto_commit is set
RepoUpdate(d0, id, ac, flag, fail) ==
    LET auto == ResolveAutoCommit(ac, flag)
        found == get_by_id(d0, id) IN
    IF found = {}
    THEN Outcome(d0, "none", RetNone)
    ELSE LET old == CHOOSE row \in found : TRUE
             new == [old EXCEPT !.v = 1]
             d == Logged(d0, "update", ac, flag, auto)
             d1 == SessionAdd(SessionDelete(d, old), new) IN
         IF fail
         THEN Outcome(IF auto THEN SessionRollback(d) ELSE d, "IntegrityError", RetNone)
         ELSE Outcome(IF auto THEN SessionCommit(d1) ELSE d1, "none", RetId(id))

\* delete has no auto_commit parameter: it always commits the session
RepoDelete(d0, id, flag) ==
    LET found == get_by_id(d0, id) IN
    IF found = {}
    THEN Outcome(d0, "none", RetBool(FALSE))
    ELSE LET old == CHOOSE row \in found : TRUE
             d == Logged(d0, "delete", "default", flag, TRUE) IN
         Outcome(SessionCommit(SessionDelete(d, old)), "none", RetBool(TRUE))

\* a store with no uniqueness constraint at all
UniqueKey_None(tbl) == FALSE

\* the tables whose name column is declared unique: SecurityRole.name is
\* (unique=True); AIAgent.name and Workflow.name are not
UniqueKey(tbl) == tbl = "security_roles"

\* the insert of row into a table with a unique name, by a session that
\* sees the committed rows c: the store rejects it when a committed row has
\* the name
UniqueViolation(c, row) ==
    UniqueKey(row.tbl) /\ \E x \in c : x.tbl = row.tbl /\ x.name = row.name

(* ------------------------ services ------------------------------------ *)

\* f"Default Workflow - {agent_name}"
DefaultWorkflowName(agent_name) == "Default Workflow - " \o agent_name

\* a create_agent that asks the repository to commit at once
create_agent_Commits(d, name, id, flag) ==
    IF get_by_name_and_organization(d, "ai_agents", name) # {}
    THEN Outcome(d, "ConflictError", RetNone)
    ELSE RepoCreate(d, Row("ai_agents", name, id, 0, NoId), "commit", flag, FALSE)

\* AIAgentService.create_agent: name check, then repository.create with no
\* auto_commit argument
create_agent(d, name, id, flag) ==
    IF get_by_name_and_organization(d, "ai_agents", name) # {}
    THEN Outcome(d, "ConflictError", RetNone)
    ELSE RepoCreate(d, Row("ai_agents", name, id, 0, NoId), "default", flag, FALSE)

\* WorkflowService.create_workflow: name check, then repository.create with
\* no auto_commit argument; fail: the store rejects the insert
create_workflow(d, name, agent_id, id, flag, fail) ==
    IF get_by_name_and_organization(d, "workflows", name) # {}
    THEN Outcome(d, "ConflictError", RetNone)
    ELSE RepoCreate(d, Row("workflows", name, id, 0, agent_id), "default", flag, fail)

\* SecurityService.create_role, after its name check: repository.create with
\* no auto_commit argument; the INSERT is refused when a committed row has
\* the name
SecurityService_create_role(d, name, id, flag) ==
    LET row == Row("security_roles", name, id, 0, NoId) IN
    RepoCreate(d, row, "default", flag, UniqueViolation(d.c, row))

\* OrganizationService.create_organization: name check, then
\* OrganizationRepository.create_organization (db.add, db.commit) and
\* OrganizationRepository.add_user_to_organization with OWNER (db.add,
\* db.commit); neither repository method looks at the transaction context.
\* The membership row refers to the organization and carries the role as
\* its name; fail: the store rejects the membership at its commit
create_organization(d, name, orgId, memberId, fail) ==
    IF get_by_name_and_organization(d, "organizations", name) # {}
    THEN Outcome(d, "ValueError", RetNone)
    ELSE LET d1 == SessionCommit(SessionAdd(d, Row("organizations", name, orgId, 0, NoId))) IN
         IF fail
         THEN Outcome(d1, "IntegrityError", RetNone)
         ELSE Outcome(SessionCommit(SessionAdd(d1, Row("organization_users", "owner",
                                                        memberId, 0, orgId))),
                      "none", RetId(orgId))

\* AIAgentService.create_agent_with_default_workflow: the agent, then its
\* default workflow referencing the agent; returns the agent
create_agent_with_default_workflow(d, name, agentId, wfId, flag, fail) ==
    LET a == create_agent(d, name, agentId, flag) IN
    IF a.exc # "none" THEN a
    ELSE LET w == create_workflow(a.db, DefaultWorkflowName(name), a.ret.id,
                                  wfId, flag, fail) IN
         IF w.exc # "none" THEN w ELSE Outcome(w.db, "none", a.ret)

(* ------------------------ unit-of-work steps --------------------------- *)

Op(op, name, id, ac, fail) ==
    [op |-> op, name |-> name, id |-> id, ac |-> ac, fail |-> fail]

\* the steps a caller may submit: repository writes with each auto_commit
\* argument, a repository delete, a step that raises, the composite service
\* call, and the closure the create-agent endpoint submits
CreateOps ==
    { Op("create", "z", NoId, ac, FALSE) : ac \in AutoCommitArgs }
      \cup { Op("create", "z", NoId, "default", TRUE) }

UpdateOps ==
    { Op("update", "", InitAgentId, ac, FALSE) : ac \in AutoCommitArgs }
      \cup { Op("update", "", MissingId, "default", FALSE) }

DeleteOps == { Op("delete", "", id, "default", FALSE) : id \in {InitAgentId, MissingId} }

RaiseOps == { Op("raise", e, NoId, "default", FALSE) : e \in {"ConflictError", "Exception"} }

ServiceOps ==
    { Op("create_agent_with_default_workflow", "y", NoId, "default", f) : f \in BOOLEAN }
      \cup { Op("create_agent_with_default_workflow", "x", NoId, "default", FALSE) }

EndpointOps == { Op("atomic_agent_creation", "y", NoId, "default", FALSE) }

\* the steps of the commit-instruction specification: create and update
\* with each auto_commit argument, accepted or rejected by the store, and
\* an update of an entity that is not there
CommitOps ==
    { Op("create", "z", NoId, ac, f) : ac \in AutoCommitArgs, f \in BOOLEAN }
      \cup { Op("update", "", InitAgentId, ac, f) : ac \in AutoCommitArgs, f \in BOOLEAN }
      \cup { Op("update", "", MissingId, "commit", FALSE) }

\* create_organization, with and without a store failure at the membership
OrgOps == { Op("create_organization", "acme", NoId, "default", f) : f \in BOOLEAN }

\* create_organization_with_sample_agent's call of the composite, which
\* passes llm_service as the endpoint's closure does
SampleOps == { Op("sample_agent_creation", "y", NoId, "default", FALSE) }

TxOps == CreateOps \cup UpdateOps \cup DeleteOps \cup RaiseOps \cup ServiceOps \cup EndpointOps

\* the exceptions a step may raise: the service's ConflictError, the
\* store's IntegrityError, DataError and other SQLAlchemyErrors, an
\* HTTPException, and any other Exception
StepExceptions ==
    {"ConflictError", "IntegrityError", "DataError", "SQLAlchemyError",
     "HTTPException", "Exception"}

\* the steps of the error-mapping specification: a create with no
\* auto_commit argument, and a step raising each kind of exception
ErrOps ==
    { Op("create", "z", NoId, "default", FALSE) }
      \cup { Op("raise", e, NoId, "default", FALSE) : e \in StepExceptions }

\* the steps of the concurrent-creation specification: the creation of a
\* role named "n" (unique name) and of an agent named "y" (no constraint)
RaceOps ==
    { Op("create_role", "n", NoId, "default", FALSE),
      Op("create_agent_with_default_workflow", "y", NoId, "default", FALSE) }

\* the steps of the context-scoping specification: a create with no
\* auto_commit argument, and a step that raises
CtxOps == { Op("create", "z", NoId, "default", FALSE),
            Op("raise", "Exception", NoId, "default", FALSE) }

\* the steps of the nesting specification: a create with no auto_commit
\* argument, and a step that runs an execute_atomic of its own, on the same
\* session and thread, around one such create (which the store may reject)
NestOps ==
    { Op("create", "z", NoId, "default", FALSE) }
      \cup { Op("nested_atomic", "w", NoId, "default", f) : f \in BOOLEAN }

\* the step opens a db_transaction of its own
OpensTransaction(o) == o.op = "nested_atomic"

\* all lists over S of length at most n
RECURSIVE ListsUpTo(_, _)
ListsUpTo(S, n) ==
    IF n = 0 THEN { <<>> }
    ELSE LET shorter == ListsUpTo(S, n - 1) IN
         shorter \cup { Append(l, o) : l \in { m \in shorter : Len(m) = n - 1 }, o \in S }

\* the ops that reach a repository
TouchesRepository(o) == o.op \notin {"raise", "atomic_agent_creation", "sample_agent_creation"}

\* one step, run by request r as the i-th step of its list, under the
\* transaction flag its thread shows
RunStep(d, o, flag, r, i) ==
    CASE o.op = "create" ->
           RepoCreate(d, Row("ai_agents", o.name, <<r, i, "row">>, 0, NoId), o.ac, flag, o.fail)
      [] o.op = "update" -> RepoUpdate(d, o.id, o.ac, flag, o.fail)
      [] o.op = "delete" -> RepoDelete(d, o.id, flag)
      [] o.op = "raise" -> Outcome(d, o.name, RetNone)
      [] o.op = "create_agent_with_default_workflow" ->
           create_agent_with_default_workflow(d, o.name, <<r, i, "agent">>,
                                              <<r, i, "workflow">>, flag, o.fail)
      [] o.op = "create_role" ->
           SecurityService_create_role(d, o.name, <<r, i, "role">>, flag)
      \* TransactionManager(db).execute_atomic([create]) inside a step: the
      \* create runs under the flag the inner db_transaction has just set;
      \* the inner block then commits the session, or rolls it back and
      \* raises the mapped HTTPException
      [] o.op = "nested_atomic" ->
           LET inner == RepoCreate(d, Row("ai_agents", o.name, <<r, i, "row">>, 0, NoId),
                                   "default", TRUE, o.fail) IN
           IF inner.exc = "none"
           THEN Outcome(SessionCommit(inner.db), "none", inner.ret)
           ELSE Outcome(SessionRollback(inner.db), "HTTPException", RetNone)
      \* agents.py passes llm_service=..., which the service method does not
      \* accept: the call raises TypeError before any write
      [] o.op = "atomic_agent_creation" -> Outcome(d, "TypeError", RetNone)
      [] o.op = "create_organization" ->
           create_organization(d, o.name, <<r, i, "org">>, <<r, i, "member">>, o.fail)
      \* organization_service.py passes llm_service=... as well
      [] o.op = "sample_agent_creation" -> Outcome(d, "TypeError", RetNone)

(* ------------------------ error mapping -------------------------------- *)

\* the text of an exception, str(e): whatever the raiser put there
ExceptionTexts == {"internal detail 1", "internal detail 2"}

NoText == ""

\* the fixed messages of execute_atomic and atomic_operation
GenericMessages ==
    { "Operation violates database constraints", "Invalid data provided",
      "Database operation failed" }

\* an execute_atomic whose generic database clause comes first:
\* IntegrityError and DataError are SQLAlchemyErrors
MapAtomicError_GenericFirst(e) ==
    CASE e = "ConflictError" -> [kind |-> "Conflict", status |-> 409]
      [] e \in {"IntegrityError", "DataError", "SQLAlchemyError"} ->
           [kind |-> "Unexpected", status |-> 500]
      [] e = "HTTPException" -> [kind |-> "NotFound", status |-> 404]
      [] OTHER -> [kind |-> "Unexpected", status |-> 500]

\* the except clauses of TransactionManager.execute_atomic, in order; any
\* other SQLAlchemyError and any other Exception become a 500; an
\* HTTPException (here one with status 404) is re-raised as it is
MapAtomicError(e) ==
    CASE e = "ConflictError" -> [kind |-> "Conflict", status |-> 409]
      [] e = "IntegrityError" -> [kind |-> "IntegrityViolation", status |-> 409]
      [] e = "DataError" -> [kind |-> "InvalidData", status |-> 400]
      [] e = "SQLAlchemyError" -> [kind |-> "Unexpected", status |-> 500]
      [] e = "HTTPException" -> [kind |-> "NotFound", status |-> 404]
      [] OTHER -> [kind |-> "Unexpected", status |-> 500]

\* the detail of the HTTPException execute_atomic raises: str(e) for a
\* ConflictError and for any other Exception, a fixed message for the
\* database errors
AtomicErrorDetail(e, text) ==
    CASE e = "ConflictError" -> text
      [] e = "IntegrityError" -> "Operation violates database constraints"
      [] e = "DataError" -> "Invalid data provided"
      [] e = "SQLAlchemyError" -> "Database operation failed"
      [] OTHER -> text

\* the detail of the HTTPException the atomic_operation wrapper raises
DecoratedErrorDetail(e, text) ==
    CASE e \in {"IntegrityError", "DataError", "SQLAlchemyError"} ->
           "Database operation failed"
      [] OTHER -> text

\* the except clauses of the atomic_operation wrapper, in order
MapDecoratedError(e) ==
    CASE e \in {"IntegrityError", "DataError", "SQLAlchemyError"} ->
           [kind |-> "Database", status |-> 500]
      [] OTHER -> [kind |-> "Unexpected", status |-> 500]

Ok == [kind |-> "ok", status |-> 200]

NoOutcome == [kind |-> "none", status |-> 0]

(* ------------------------ roles and permissions ------------------------ *)

Users == {"u1"}

Orgs == {"o1", "o2"}

Resources == {"agents", "workflows"}

Actions == {"read", "create"}

\* a role name: a word, the case of its first letter and of the rest
\* ("l" lower, "U" upper): owner = (l, l), Owner = (U, l), OWNER = (U, U)
RoleName(w, first, rest) == [w |-> w, first |-> first, rest |-> rest]

\* str.capitalize(): first letter upper, the rest lower
Capitalize(n) == RoleName(n.w, "U", "l")

\* an upper() that leaves the name as it is
Upper_KeepsCase(n) == n

\* str.upper()
Upper(n) == RoleName(n.w, "U", "U")

\* OrganizationRole.value: the enum's values are lower-case words
RoleValue(w) == RoleName(w, "l", "l")

OrganizationRoles == {"owner", "viewer"}

NoRole == RoleName("None", "l", "l")

\* the names under which a role definition may be stored
StoredNames ==
    { RoleName("owner", "l", "l"), RoleName("owner", "U", "l"),
      RoleName("owner", "U", "U"), RoleName("viewer", "l", "l") }

\* a permission bundle: the resources it has an entry for, and the
\* (resource, action) pairs it allows
Bundle(keys, grants) == [keys |-> keys, grants |-> grants]

EmptyBundle == Bundle({}, {})

ViewerBundle == Bundle({"workflows"}, {<<"workflows", "read">>})

FullBundle == Bundle(Resources, Resources \X Actions)

Bundles == {EmptyBundle, ViewerBundle, FullBundle}

Absent == Bundle({"absent"}, {})

\* SecurityRoleRepository.get_by_name: the definition stored under exactly
\* this name, if any
get_by_name(defs, n) == IF n \in DOMAIN defs THEN defs[n] ELSE Absent

\* a resolution that tries the upper-case name before the capitalized one
get_role_permissions_UpperFirst(defs, n, raises) ==
    IF raises THEN EmptyBundle
    ELSE LET exact == get_by_name(defs, n)
             cap == get_by_name(defs, Capitalize(n))
             up == get_by_name(defs, Upper(n)) IN
         IF exact # Absent THEN exact
         ELSE IF up # Absent THEN up
         ELSE IF cap # Absent THEN cap
         ELSE EmptyBundle

\* AuthorizationService.get_role_permissions: exact name, then capitalized,
\* then upper-case; {} when none is stored or the lookup raises
get_role_permissions(defs, n, raises) ==
    IF raises THEN EmptyBundle
    ELSE LET exact == get_by_name(defs, n)
             cap == get_by_name(defs, Capitalize(n))
             up == get_by_name(defs, Upper(n)) IN
         IF exact # Absent THEN exact
         ELSE IF cap # Absent THEN cap
         ELSE IF up # Absent THEN up
         ELSE EmptyBundle

\* a check that accepts any action once the resource has an entry
HasPermission_AnyAction(permissions, resource, action) ==
    resource \in permissions.keys

\* check_permission, once the role is known: no permissions -> False; else
\* action in permissions.get(resource, [])
HasPermission(permissions, resource, action) ==
    IF permissions.keys = {} THEN FALSE
    ELSE <<resource, action>> \in permissions.grants

\* a lookup that answers from the store although the query raised
get_user_role_in_organization_IgnoresFailure(mem, user, org, raises) == mem[<<user, org>>]

\* OrganizationRepository.get_user_role_in_organization, as the service
\* wraps it: the role's value, None when there is no row or the lookup raises
get_user_role_in_organization(mem, user, org, raises) ==
    IF raises THEN NoRole ELSE mem[<<user, org>>]

\* what the caller of the gate receives
Granted(user, org) ==
    [kind |-> "granted", status |-> 200, user |-> user, org |-> org,
     role |-> NoRole, action |-> "", resource |-> ""]

\* a gate that reports a missing membership as a missing permission
Denied_AsInsufficient(org) ==
    [kind |-> "InsufficientPermission", status |-> 403, user |-> "", org |-> org,
     role |-> NoRole, action |-> "", resource |-> ""]

\* ForbiddenError("User is not a member of organization ..."), as 403
Denied_NoMembership(org) ==
    [kind |-> "NoMembership", status |-> 403, user |-> "", org |-> org,
     role |-> NoRole, action |-> "", resource |-> ""]

\* a denial that does not say which role was resolved
Denied_Insufficient_RoleOmitted(role, action, resource) ==
    [kind |-> "InsufficientPermission", status |-> 403, user |-> "", org |-> "",
     role |-> NoRole, action |-> action, resource |-> resource]

\* ForbiddenError("User with role ... does not have ... permission for ..."),
\* as 403
Denied_Insufficient(role, action, resource) ==
    [kind |-> "InsufficientPermission", status |-> 403, user |-> "", org |-> "",
     role |-> role, action |-> action, resource |-> resource]

NoDecision ==
    [kind |-> "none", status |-> 0, user |-> "", org |-> "",
     role |-> NoRole, action |-> "", resource |-> ""]

NoCall == [user |-> "", org |-> "", resource |-> "", action |-> ""]

(* ------------------------ role definitions: type and organization ------ *)

\* RoleType
RoleTypes == {"system", "organization"}

NoOrganization == "none"

\* the type of a role definition and the organization it is attached to
RoleScope(type, org) == [type |-> type, org |-> org]

\* the seeded definitions: type=RoleType.SYSTEM, no organization
SystemScope == RoleScope("system", NoOrganization)

\* the bundles a role-creation call may carry
CreateBundles == {ViewerBundle, FullBundle}

\* the names a role-creation call may carry
CreateNames ==
    { RoleName("owner", "l", "l"), RoleName("owner", "U", "l"),
      RoleName("viewer", "l", "l") }

\* the names get_role_permissions may be called with
RequestNames ==
    { RoleName(w, first, rest) : w \in OrganizationRoles, first \in {"l", "U"},
                                 rest \in {"l", "U"} }

\* the names get_role_permissions looks up, in order, until one is stored
NamesTried(defs, n) ==
    IF get_by_name(defs, n) # Absent THEN <<n>>
    ELSE IF get_by_name(defs, Capitalize(n)) # Absent THEN <<n, Capitalize(n)>>
    ELSE <<n, Capitalize(n), Upper(n)>>

\* a call of get_role_permissions: the name asked for, the store it read,
\* the names it looked up and the bundle it returned
NoRoleCall ==
    [called |-> FALSE, name |-> NoRole, defs |-> <<>>, raised |-> FALSE,
     tried |-> <<>>, result |-> EmptyBundle]

NoAdmin == [op |-> "none", exc |-> "none"]

(* ------------------------ the identity dependency ---------------------- *)

\* what a request carries: the X-User-ID header (absent, a UUID, or not a
\* UUID), the X-Service header, the bearer credential, and what the
\* authentication service answers for that credential
UserIdHeaders == {"none", "uuid", "malformed"}

ServiceHeaders == {"none", "set"}

Credentials == {"none", "token"}

\* validate_token: user data with an "id", with a "sub" only, with neither,
\* with an id that is not a UUID, or an exception (invalid token)
TokenAnswers == {"id", "sub", "nofield", "baduuid", "raises"}

Identity(status, user, verified) ==
    [status |-> status, user |-> user, verified |-> verified]

\* get_current_user_id: the internal-service headers first, then the
\* bearer token through the authentication service; verified: the identity
\* came from validate_token
get_current_user_id(x_user_id, x_service, credentials, answer) ==
    IF x_user_id # "none" /\ x_service # "none"
    THEN IF x_user_id = "uuid" THEN Identity(200, "u1", FALSE)
         ELSE Identity(400, "", FALSE)
    ELSE IF credentials = "none" THEN Identity(401, "", FALSE)
    ELSE IF answer \in {"id", "sub"} THEN Identity(200, "u1", TRUE)
    ELSE Identity(401, "", FALSE)

NoIdent ==
    [pc |-> "idle", x_user_id |-> "none", x_service |-> "none",
     credentials |-> "none", answer |-> "raises", status |-> 0, user |-> "",
     verified |-> FALSE]

(* ------------------------ memberships ---------------------------------- *)

\* an organization id that no organization has
MissingOrg == "o9"

\* a row of organization_users
OrganizationUser(org, user, role, id) ==
    [org |-> org, user |-> user, role |-> role, id |-> id]

OrgUserRows(rows, org, user) == { x \in rows : x.org = org /\ x.user = user }

\* OrganizationRepository.get_user_role_in_organization: the role of the
\* first row for (organization, user), None when there is none
RoleInOrganization(rows, org, user) ==
    IF OrgUserRows(rows, org, user) = {} THEN NoRole
    ELSE (CHOOSE x \in OrgUserRows(rows, org, user) : TRUE).role

\* the membership lookups of the gate, as a function of the table
MembersOf(rows) == [p \in Users \X Orgs |-> RoleInOrganization(rows, p[2], p[1])]

\* the table holding the memberships mem, one row each
RowsOf(mem) ==
    { OrganizationUser(p[2], p[1], mem[p], <<"seed", 0>>) :
        p \in { q \in DOMAIN mem : mem[q] # NoRole } }

\* a table without its constraint
unique_org_user_NotEnforced(rows, row) == TRUE

\* UniqueConstraint("organization_id", "user_id"): may row be inserted
unique_org_user(rows, row) == OrgUserRows(rows, row.org, row.user) = {}

\* the calls one request slot may make
MaxCalls == 2

\* the roles given to a new member
AddRoles == {RoleValue("owner"), RoleValue("viewer")}

\* the organizations named in a membership call
CallOrgs == Orgs \cup {MissingOrg}

\* OrganizationService.add_user_to_organization before the repository call:
\* the organization must exist and the user must have no role in it
add_user_to_organization_raises(rows, org, user) ==
    IF org \notin Orgs THEN "ValueError"
    ELSE IF RoleInOrganization(rows, org, user) # NoRole THEN "ValueError"
    ELSE "none"

\* a removal that does not look at the role
remove_user_from_organization_raises_AnyRole(rows, org, user) ==
    IF RoleInOrganization(rows, org, user) = NoRole THEN "ValueError" ELSE "none"

\* OrganizationService.remove_user_from_organization before the repository
\* call: the user must have a role in the organization, and not OWNER
remove_user_from_organization_raises(rows, org, user) ==
    IF RoleInOrganization(rows, org, user) = NoRole THEN "ValueError"
    ELSE IF RoleInOrganization(rows, org, user) = RoleValue("owner") THEN "ValueError"
    ELSE "none"

\* OrganizationRepository.add_user_to_organization: db.add and db.commit;
\* the commit raises IntegrityError when the constraint refuses the row
repository_add_user_to_organization(rows, row) ==
    IF unique_org_user(rows, row)
    THEN [rows |-> rows \cup {row}, exc |-> "none"]
    ELSE [rows |-> rows, exc |-> "IntegrityError"]

\* OrganizationRepository.remove_user_from_organization: the first row of
\* (organization, user), whatever its role, is deleted and committed
repository_remove_user_from_organization(rows, org, user) ==
    IF OrgUserRows(rows, org, user) = {} THEN rows
    ELSE rows \ {CHOOSE x \in OrgUserRows(rows, org, user) : TRUE}

\* a membership call of a request slot: seen is the role its lookup found,
\* member whether a row of (org, user) was stored when the call ended,
\* changed whether its last step changed the table, n the calls made so far
NoMemberCall ==
    [op |-> "none", pc |-> "idle", org |-> "", user |-> "", role |-> NoRole,
     seen |-> NoRole, exc |-> "none", member |-> FALSE, changed |-> FALSE, n |-> 0]

(* ------------------------ state ---------------------------------------- *)

VARIABLES
    committed,   \* the persisted rows, as every session reads them
    sess,        \* per request: the session's flushed, uncommitted writes
    commits,     \* per request: commits its session carried out
    effects,     \* per request: rows its session's commits inserted / removed
    wlog,        \* per request: the repository writes it made
    active,      \* per thread: _transaction_context.active
    loopBusy,    \* the request running on the event loop, if any
    kind,        \* per request: "atomic", "decorated", "plain" or "none"
    thr,         \* per request: the thread it runs on
    ops,         \* per request: the submitted list of steps
    idx,         \* per request: position of the for loop
    pc,          \* per request: "idle", "active", "rollingback", "closing", "done"
    exc,         \* per request: the exception in flight, or "none"
    ran,         \* per request: the step indices run, in order
    rets,        \* per request: what each step run returned
    result,      \* per request: the local variable result
    outcome,     \* per request: what the caller receives
    seen,        \* per request: (flag observed, own unit open) at each step
    visible,     \* per request: what it had persisted after each step run
    etext,       \* per request: the text of the exception in flight
    detail,      \* per request: the message the caller receives
    phases,      \* per request: the phases db_transaction went through
    checked,     \* per request: the step whose name check has passed, or 0
    members,     \* the membership store: (user, organization) -> role or none
    roleDefs,    \* the role-definition store: stored name -> bundle
    apc,         \* the gate: "idle", "role", "denied", "denied_role", "done"
    acall,       \* the gate: the call (user, organization, resource, action)
    arole,       \* the gate: the role the last membership lookup returned
    araised,     \* the gate: the lookups of this call that raised
    alookups,    \* the gate: membership and role lookups made by this call
    adecision,   \* the gate: what the caller receives
    roleScope,   \* the role-definition store: stored name -> type and organization
    rcall,       \* the last get_role_permissions call and what it returned
    radmin,      \* the last role-creation call and its outcome
    ident,       \* the request at the identity dependency
    memberRows,  \* the organization_users table
    mcall        \* per request: its membership call (add or remove)

txvars == <<committed, sess, commits, effects, wlog, active, loopBusy, kind, thr,
            ops, idx, pc, exc, ran, rets, result, outcome, seen, visible,
            etext, detail, phases, checked>>

\* the role administration, the identity dependency and the membership calls
extvars == <<roleScope, rcall, radmin, ident, memberRows, mcall>>

authvars == <<members, roleDefs, apc, acall, arole, araised, alookups, adecision,
              extvars>>

vars == <<txvars, authvars>>

NoThread == "none"

NoRequest == "none"

DbOf(r) == Db(committed, sess[r], commits[r], effects[r], wlog[r])

\* write a database handle back to the state
Store(r, d) ==
    /\ committed' = d.c
    /\ sess' = [sess EXCEPT ![r] = [adds |-> d.adds, dels |-> d.dels]]
    /\ commits' = [commits EXCEPT ![r] = d.n]
    /\ effects' = [effects EXCEPT ![r] = [adds |-> d.eadds, dels |-> d.edels]]
    /\ wlog' = [wlog EXCEPT ![r] = d.log]

is_in_transaction(t) == active[t]

\* a request on the event loop runs only when no other request holds it
MayRun(r, t) == t = "loop" => loopBusy \in {NoRequest, r}

\* the transaction side before any request
InitTx ==
    /\ committed = InitRows
    /\ sess = [r \in Requests |-> EmptySession]
    /\ commits = [r \in Requests |-> 0]
    /\ effects = [r \in Requests |-> EmptySession]
    /\ wlog = [r \in Requests |-> {}]
    /\ active = [t \in Threads |-> FALSE]
    /\ loopBusy = NoRequest
    /\ kind = [r \in Requests |-> "none"]
    /\ thr = [r \in Requests |-> NoThread]
    /\ ops = [r \in Requests |-> <<>>]
    /\ idx = [r \in Requests |-> 1]
    /\ pc = [r \in Requests |-> "idle"]
    /\ exc = [r \in Requests |-> "none"]
    /\ ran = [r \in Requests |-> <<>>]
    /\ rets = [r \in Requests |-> <<>>]
    /\ result = [r \in Requests |-> RetNone]
    /\ outcome = [r \in Requests |-> NoOutcome]
    /\ seen = [r \in Requests |-> {}]
    /\ visible = [r \in Requests |-> <<>>]
    /\ etext = [r \in Requests |-> NoText]
    /\ detail = [r \in Requests |-> NoText]
    /\ phases = [r \in Requests |-> <<>>]
    /\ checked = [r \in Requests |-> 0]

\* the gate before any call
InitGate ==
    /\ apc = "idle"
    /\ acall = NoCall
    /\ arole = NoRole
    /\ araised = {}
    /\ alookups = [m |-> 0, p |-> 0]
    /\ adecision = NoDecision

\* the stores as the seed scripts leave them: OWNER with every permission,
\* and the first user as owner of the first organization
SeededRoleDefs == [n \in {RoleName("owner", "U", "U")} |-> FullBundle]

SeededMembers ==
    [p \in Users \X Orgs |-> IF p[2] = "o1" THEN RoleValue("owner") ELSE NoRole]

\* the role administration, the identity dependency and the membership
\* calls before any call; every stored definition is a system role
InitExt ==
    /\ roleScope = [n \in DOMAIN roleDefs |-> SystemScope]
    /\ rcall = NoRoleCall
    /\ radmin = NoAdmin
    /\ ident = NoIdent
    /\ memberRows = RowsOf(members)
    /\ mcall = [r \in Requests |-> NoMemberCall]

Init ==
    /\ InitTx
    /\ InitGate
    /\ members = SeededMembers
    /\ roleDefs = SeededRoleDefs
    /\ InitExt

(* ------------------------ db_transaction / execute_atomic -------------- *)

\* entry of db_transaction: set_transaction_context(True).  execute_atomic
\* is synchronous, so on the event loop it holds the loop until it returns;
\* the atomic_operation wrapper awaits its endpoint and lets go of the loop.
Enter(r, k, t, list) ==
    /\ pc[r] = "idle"
    /\ MayRun(r, t)
    /\ kind' = [kind EXCEPT ![r] = k]
    /\ thr' = [thr EXCEPT ![r] = t]
    /\ ops' = [ops EXCEPT ![r] = list]
    /\ active' = [active EXCEPT ![t] = TRUE]
    /\ loopBusy' = IF t = "loop" /\ k = "atomic" THEN r ELSE loopBusy
    /\ pc' = [pc EXCEPT ![r] = "active"]
    /\ phases' = [phases EXCEPT ![r] = <<"Active">>]
    /\ UNCHANGED <<committed, sess, commits, effects, wlog, idx, exc, ran, rets,
                   result, outcome, seen, visible, etext, detail, checked>>
    /\ UNCHANGED authvars

\* a loop that takes the steps from the end of the list
NextStepIndex_Reversed(r) == Len(ops[r]) - idx[r] + 1

\* the for loop of execute_atomic takes the steps in list order
NextStepIndex(r) == idx[r]

\* a context that is cleared on the success path only
ContextOnExit_OnlyOnSuccess(e) == e # "none"

\* the value the finally clause of db_transaction gives the flag, whatever
\* exception e is in flight
ContextOnExit(e) == FALSE

\* a loop that goes on after a step raised
AfterStep_GoesOn(raised) == "active"

\* the for loop of execute_atomic has no try: a step that raises leaves the
\* loop for the except clause of db_transaction
AfterStep(raised) == IF raised THEN "rollingback" ELSE "active"

\* the next step of r is a create_role whose name check is still to be made
NameCheckDue(r) ==
    /\ idx[r] <= Len(ops[r])
    /\ ops[r][idx[r]].op = "create_role"
    /\ checked[r] # idx[r]

\* the INSERT of a unique name waits while another session holds an
\* uncommitted row with that name
InsertWaits(r) ==
    /\ idx[r] <= Len(ops[r])
    /\ ops[r][idx[r]].op = "create_role"
    /\ \E q \in Requests \ {r} : \E x \in sess[q].adds :
          /\ UniqueKey(x.tbl)
          /\ x.tbl = "security_roles" /\ x.name = ops[r][idx[r]].name

\* the step may go on: its name check, if it has one, has passed, and its
\* INSERT does not wait
Ready(r) == ~NameCheckDue(r) /\ ~InsertWaits(r)

\* SecurityService.create_role inside a step, first half: get_by_name on the
\* session; ConflictError when the name is there
CheckName(r) ==
    /\ pc[r] = "active"
    /\ kind[r] = "atomic"
    /\ MayRun(r, thr[r])
    /\ NameCheckDue(r)
    /\ IF get_by_name_and_organization(DbOf(r), "security_roles", ops[r][idx[r]].name) # {}
       THEN /\ exc' = [exc EXCEPT ![r] = "ConflictError"]
            /\ pc' = [pc EXCEPT ![r] = "rollingback"]
            /\ UNCHANGED checked
       ELSE /\ checked' = [checked EXCEPT ![r] = idx[r]]
            /\ UNCHANGED <<exc, pc>>
    /\ loopBusy' = IF thr[r] = "loop" THEN r ELSE loopBusy
    /\ UNCHANGED <<committed, sess, commits, effects, wlog, active, kind, thr, ops,
                   idx, ran, rets, result, outcome, seen, visible, etext, detail,
                   phases>>
    /\ UNCHANGED authvars

\* result = operation()
RunNext(r) ==
    /\ pc[r] = "active"
    /\ kind[r] # "none"
    /\ idx[r] <= Len(ops[r])
    /\ MayRun(r, thr[r])
    /\ Ready(r)
    /\ LET i == NextStepIndex(r)
           o == ops[r][i]
           flag == is_in_transaction(thr[r])
           out == RunStep(DbOf(r), o, flag, r, i)
           own == kind[r] \in {"atomic", "decorated"} IN
       /\ Store(r, out.db)
       /\ ran' = [ran EXCEPT ![r] = Append(@, i)]
       /\ visible' = [visible EXCEPT ![r] =
                        Append(@, [adds |-> out.db.eadds, dels |-> out.db.edels])]
       /\ seen' = [seen EXCEPT ![r] =
                     IF TouchesRepository(o) THEN @ \cup {[flag |-> flag, own |-> own]} ELSE @]
       /\ IF out.exc = "none"
          THEN /\ rets' = [rets EXCEPT ![r] = Append(@, out.ret)]
               /\ result' = [result EXCEPT ![r] = out.ret]
               /\ idx' = [idx EXCEPT ![r] = @ + 1]
               /\ UNCHANGED <<exc, pc, loopBusy>>
          ELSE /\ exc' = [exc EXCEPT ![r] = out.exc]
               /\ pc' = [pc EXCEPT ![r] = AfterStep(TRUE)]
               /\ loopBusy' = IF thr[r] = "loop" THEN r ELSE loopBusy
               /\ UNCHANGED <<rets, result, idx>>
       \* a step that opens a db_transaction of its own leaves through that
       \* block's finally clause: the thread's flag is reset, the session closed
       /\ active' = IF OpensTransaction(o)
                    THEN [active EXCEPT ![thr[r]] = ContextOnExit(out.exc)]
                    ELSE active
       /\ phases' = IF OpensTransaction(o)
                    THEN [phases EXCEPT ![r] =
                            @ \o <<"Active">>
                              \o (IF out.exc = "none" THEN <<"Committing">> ELSE <<"RollingBack">>)
                              \o <<"Closed">>]
                    ELSE phases
    /\ UNCHANGED <<kind, thr, ops, outcome, etext, detail, checked>>
    /\ UNCHANGED authvars

\* a commit failure that is not followed by the except clause
AfterCommit_NoRollback(rejected) == "closing"

\* where db_transaction goes from db.commit(): to the except clause when
\* the commit raised, else to the finally clause
AfterCommit(rejected) == IF rejected THEN "rollingback" ELSE "closing"

\* what db.commit() raises when the store refuses the pending writes: a
\* constraint violation or a value the column does not take
CommitExceptions == {"IntegrityError", "DataError"}

\* db.commit() after the body; the store may reject pending writes at commit
Commit(r) ==
    /\ pc[r] = "active"
    /\ kind[r] \in {"atomic", "decorated"}
    /\ idx[r] > Len(ops[r])
    /\ MayRun(r, thr[r])
    /\ \E rejected \in BOOLEAN, e \in CommitExceptions :
         /\ rejected => (sess[r].adds \cup sess[r].dels) # {}
         /\ IF rejected
            THEN /\ exc' = [exc EXCEPT ![r] = e]
                 /\ UNCHANGED <<committed, sess, commits, effects, wlog>>
            ELSE /\ Store(r, SessionCommit(DbOf(r)))
                 /\ UNCHANGED exc
         /\ pc' = [pc EXCEPT ![r] = AfterCommit(rejected)]
    /\ loopBusy' = IF thr[r] = "loop" THEN r ELSE loopBusy
    /\ phases' = [phases EXCEPT ![r] = Append(@, "Committing")]
    /\ UNCHANGED <<active, kind, thr, ops, idx, ran, rets, result, outcome, seen,
                   visible, etext, detail, checked>>
    /\ UNCHANGED authvars

\* except Exception: db.rollback(); raise
Rollback(r) ==
    /\ pc[r] = "rollingback"
    /\ kind[r] \in {"atomic", "decorated"}
    /\ Store(r, SessionRollback(DbOf(r)))
    /\ pc' = [pc EXCEPT ![r] = "closing"]
    /\ phases' = [phases EXCEPT ![r] = Append(@, "RollingBack")]
    /\ UNCHANGED <<active, loopBusy, kind, thr, ops, idx, exc, ran, rets, result,
                   outcome, seen, visible, etext, detail, checked>>
    /\ UNCHANGED authvars

\* finally: set_transaction_context(False); db.close(); then the caller
\* receives the result or the mapped failure, whose detail is built from
\* the text of the exception, whatever that text is
Finally(r) ==
    /\ pc[r] = "closing"
    /\ kind[r] \in {"atomic", "decorated"}
    /\ active' = [active EXCEPT ![thr[r]] = ContextOnExit(exc[r])]
    /\ Store(r, SessionRollback(DbOf(r)))
    /\ outcome' = [outcome EXCEPT ![r] =
                     IF exc[r] = "none" THEN Ok
                     ELSE IF kind[r] = "atomic" THEN MapAtomicError(exc[r])
                     ELSE MapDecoratedError(exc[r])]
    /\ \E text \in IF exc[r] = "none" THEN {NoText} ELSE ExceptionTexts :
         /\ etext' = [etext EXCEPT ![r] = text]
         /\ detail' = [detail EXCEPT ![r] =
                         IF exc[r] = "none" THEN NoText
                         ELSE IF kind[r] = "atomic" THEN AtomicErrorDetail(exc[r], text)
                         ELSE DecoratedErrorDetail(exc[r], text)]
    /\ phases' = [phases EXCEPT ![r] = Append(@, "Closed")]
    /\ loopBusy' = IF loopBusy = r THEN NoRequest ELSE loopBusy
    /\ pc' = [pc EXCEPT ![r] = "done"]
    /\ UNCHANGED <<kind, thr, ops, idx, exc, ran, rets, result, seen, visible, checked>>
    /\ UNCHANGED authvars

\* TransactionManager.execute_atomic(operations), called from an async
\* endpoint (event loop) or from a sync one (worker thread)
ExecuteAtomic(r) ==
    \E t \in {"loop", r}, list \in ListsUpTo(TxOps, MaxSteps) : Enter(r, "atomic", t, list)

NextTx ==
    \/ ExecuteAtomic("r1")
    \/ RunNext("r1")
    \/ Commit("r1")
    \/ Rollback("r1")
    \/ Finally("r1")

SpecTx == Init /\ [][NextTx]_vars

\* execute_atomic over steps that raise each kind of exception
ExecuteAtomicErr(r) ==
    \E t \in {"loop", r}, list \in ListsUpTo(ErrOps, MaxSteps) : Enter(r, "atomic", t, list)

NextErr ==
    \/ ExecuteAtomicErr("r1")
    \/ RunNext("r1")
    \/ Commit("r1")
    \/ Rollback("r1")
    \/ Finally("r1")

SpecErr == Init /\ [][NextErr]_vars

(* ------------------------ concurrent requests -------------------------- *)

\* an async endpoint wrapped by atomic_operation: db_transaction around
\* `await func(...)`, on the event loop, suspended at the awaits of its body
AtomicOperation(r) ==
    \E list \in ListsUpTo(CtxOps, MaxCtxSteps) : Enter(r, "decorated", "loop", list)

ExecuteAtomicCtx(r) ==
    \E t \in {"loop", r}, list \in ListsUpTo(CtxOps, MaxCtxSteps) : Enter(r, "atomic", t, list)

\* a simple handler: its writes go straight to the repository.  The async
\* endpoints of api/v1 call their services without awaiting, so on the event
\* loop such a handler runs to its end
PlainBegin(r) ==
    /\ pc[r] = "idle"
    /\ \E t \in {"loop", r}, list \in ListsUpTo(CtxOps, MaxCtxSteps) :
         /\ MayRun(r, t)
         /\ kind' = [kind EXCEPT ![r] = "plain"]
         /\ thr' = [thr EXCEPT ![r] = t]
         /\ ops' = [ops EXCEPT ![r] = list]
         /\ loopBusy' = IF t = "loop" THEN r ELSE loopBusy
    /\ pc' = [pc EXCEPT ![r] = "active"]
    /\ UNCHANGED <<committed, sess, commits, effects, wlog, active, idx, exc, ran,
                   rets, result, outcome, seen, visible, etext, detail, phases,
                   checked>>
    /\ UNCHANGED authvars

\* get_db: finally db.close() once the handler has returned
PlainReturn(r) ==
    /\ pc[r] = "active"
    /\ kind[r] = "plain"
    /\ idx[r] > Len(ops[r])
    /\ MayRun(r, thr[r])
    /\ Store(r, SessionRollback(DbOf(r)))
    /\ outcome' = [outcome EXCEPT ![r] = Ok]
    /\ loopBusy' = IF loopBusy = r THEN NoRequest ELSE loopBusy
    /\ pc' = [pc EXCEPT ![r] = "done"]
    /\ UNCHANGED <<active, kind, thr, ops, idx, exc, ran, rets, result, seen, visible,
                   etext, detail, phases, checked>>
    /\ UNCHANGED authvars

\* get_db: except Exception: db.rollback(); raise; finally db.close()
PlainFail(r) ==
    /\ pc[r] = "rollingback"
    /\ kind[r] = "plain"
    /\ Store(r, SessionRollback(DbOf(r)))
    /\ outcome' = [outcome EXCEPT ![r] = [kind |-> "Unexpected", status |-> 500]]
    /\ loopBusy' = IF loopBusy = r THEN NoRequest ELSE loopBusy
    /\ pc' = [pc EXCEPT ![r] = "done"]
    /\ UNCHANGED <<active, kind, thr, ops, idx, exc, ran, rets, result, seen, visible,
                   etext, detail, phases, checked>>
    /\ UNCHANGED authvars

NextCtx ==
    \E r \in Requests :
        \/ AtomicOperation(r)
        \/ ExecuteAtomicCtx(r)
        \/ PlainBegin(r)
        \/ RunNext(r)
        \/ Commit(r)
        \/ Rollback(r)
        \/ Finally(r)
        \/ PlainReturn(r)
        \/ PlainFail(r)

SpecCtx == Init /\ [][NextCtx]_vars

\* two execute_atomic calls, each on its own worker thread or on the event
\* loop, with its own session
ExecuteAtomicRace(r) ==
    \E t \in {"loop", r}, list \in ListsUpTo(RaceOps, MaxCtxSteps) : Enter(r, "atomic", t, list)

NextRace ==
    \E r \in Requests :
        \/ ExecuteAtomicRace(r)
        \/ CheckName(r)
        \/ RunNext(r)
        \/ Commit(r)
        \/ Rollback(r)
        \/ Finally(r)

SpecRace == Init /\ [][NextRace]_vars

\* the composite service call made with no atomic unit open: by a handler
\* (kind plain: an exception reaches get_db) or by
\* create_organization_with_sample_agent (kind sample: the exception is
\* logged and dropped), the latter also with the arguments it really passes
ServiceCall(r) ==
    /\ pc[r] = "idle"
    /\ \E t \in {"loop", r}, k \in {"plain", "sample"}, o \in ServiceOps \cup SampleOps :
         /\ o \in SampleOps => k = "sample"
         /\ MayRun(r, t)
         /\ kind' = [kind EXCEPT ![r] = k]
         /\ thr' = [thr EXCEPT ![r] = t]
         /\ ops' = [ops EXCEPT ![r] = <<o>>]
         /\ loopBusy' = IF t = "loop" THEN r ELSE loopBusy
    /\ pc' = [pc EXCEPT ![r] = "active"]
    /\ UNCHANGED <<committed, sess, commits, effects, wlog, active, idx, exc, ran,
                   rets, result, outcome, seen, visible, etext, detail, phases,
                   checked>>
    /\ UNCHANGED authvars

\* create_organization_with_sample_agent after its call of the composite:
\* 'except Exception' logs, the organization is returned either way, and
\* get_db closes the session
SampleReturn(r) ==
    /\ kind[r] = "sample"
    /\ \/ pc[r] = "active" /\ idx[r] > Len(ops[r])
       \/ pc[r] = "rollingback"
    /\ Store(r, SessionRollback(DbOf(r)))
    /\ outcome' = [outcome EXCEPT ![r] = Ok]
    /\ loopBusy' = IF loopBusy = r THEN NoRequest ELSE loopBusy
    /\ pc' = [pc EXCEPT ![r] = "done"]
    /\ UNCHANGED <<active, kind, thr, ops, idx, exc, ran, rets, result, seen, visible,
                   etext, detail, phases, checked>>
    /\ UNCHANGED authvars

\* the composite as the only step of an execute_atomic
ExecuteAtomicService(r) ==
    \E t \in {"loop", r}, o \in ServiceOps : Enter(r, "atomic", t, <<o>>)

NextService ==
    \E r \in Requests :
        \/ ServiceCall(r)
        \/ ExecuteAtomicService(r)
        \/ RunNext(r)
        \/ Commit(r)
        \/ Rollback(r)
        \/ Finally(r)
        \/ PlainReturn(r)
        \/ PlainFail(r)
        \/ SampleReturn(r)

\* create_agent_with_default_workflow on each of its call paths
SpecService == Init /\ [][NextService]_vars

\* the create-organization endpoint: a handler with no atomic unit
OrgCall(r) ==
    /\ pc[r] = "idle"
    /\ \E t \in {"loop", r}, o \in OrgOps :
         /\ MayRun(r, t)
         /\ kind' = [kind EXCEPT ![r] = "plain"]
         /\ thr' = [thr EXCEPT ![r] = t]
         /\ ops' = [ops EXCEPT ![r] = <<o>>]
         /\ loopBusy' = IF t = "loop" THEN r ELSE loopBusy
    /\ pc' = [pc EXCEPT ![r] = "active"]
    /\ UNCHANGED <<committed, sess, commits, effects, wlog, active, idx, exc, ran,
                   rets, result, outcome, seen, visible, etext, detail, phases,
                   checked>>
    /\ UNCHANGED authvars

\* create_organization as a step of an execute_atomic, among creates
ExecuteAtomicOrg(r) ==
    \E t \in {"loop", r}, list \in ListsUpTo(OrgOps \cup CtxOps, MaxCtxSteps) :
        Enter(r, "atomic", t, list)

NextOrg ==
    \E r \in Requests :
        \/ OrgCall(r)
        \/ ExecuteAtomicOrg(r)
        \/ RunNext(r)
        \/ Commit(r)
        \/ Rollback(r)
        \/ Finally(r)
        \/ PlainReturn(r)
        \/ PlainFail(r)

\* create_organization with and without an open atomic unit
SpecOrg == Init /\ [][NextOrg]_vars

\* a handler with no atomic unit that writes through the repository
PlainWrites(r) ==
    /\ pc[r] = "idle"
    /\ \E t \in {"loop", r}, list \in ListsUpTo(CommitOps, MaxCtxSteps) :
         /\ MayRun(r, t)
         /\ kind' = [kind EXCEPT ![r] = "plain"]
         /\ thr' = [thr EXCEPT ![r] = t]
         /\ ops' = [ops EXCEPT ![r] = list]
         /\ loopBusy' = IF t = "loop" THEN r ELSE loopBusy
    /\ pc' = [pc EXCEPT ![r] = "active"]
    /\ UNCHANGED <<committed, sess, commits, effects, wlog, active, idx, exc, ran,
                   rets, result, outcome, seen, visible, etext, detail, phases,
                   checked>>
    /\ UNCHANGED authvars

\* the same writes as the steps of an execute_atomic
ExecuteAtomicWrites(r) ==
    \E list \in ListsUpTo(CommitOps, MaxCtxSteps) : Enter(r, "atomic", r, list)

NextCommit ==
    \/ PlainWrites("r1")
    \/ ExecuteAtomicWrites("r1")
    \/ RunNext("r1")
    \/ Commit("r1")
    \/ Rollback("r1")
    \/ Finally("r1")
    \/ PlainReturn("r1")
    \/ PlainFail("r1")

\* repository writes with every auto_commit argument, inside and outside
\* an atomic unit
SpecCommit == Init /\ [][NextCommit]_vars

\* execute_atomic calls whose steps may open an execute_atomic of their own
ExecuteAtomicNest(r) ==
    \E t \in {"loop", r}, list \in ListsUpTo(NestOps, MaxCtxSteps) : Enter(r, "atomic", t, list)

NextNest ==
    \E r \in Requests :
        \/ ExecuteAtomicNest(r)
        \/ RunNext(r)
        \/ Commit(r)
        \/ Rollback(r)
        \/ Finally(r)

SpecNest == Init /\ [][NextNest]_vars

(* ------------------------ the authorization gate ----------------------- *)

\* the stores an authorization call may meet: any memberships, and role
\* definitions under any of the stored names
InitAuth ==
    /\ InitTx
    /\ InitGate
    /\ members \in [Users \X Orgs -> {RoleValue(w) : w \in OrganizationRoles} \cup {NoRole}]
    /\ \E S \in SUBSET StoredNames : roleDefs \in [S -> Bundles]
    /\ InitExt

\* check_permission (middleware) calls authorize_request, which calls
\* check_permission (service): first the membership lookup
AuthorizeRequest(user, org, resource, action) ==
    /\ apc = "idle"
    /\ acall' = [user |-> user, org |-> org, resource |-> resource, action |-> action]
    /\ \E raises \in BOOLEAN :
         LET role == get_user_role_in_organization(members, user, org, raises) IN
         /\ arole' = role
         /\ araised' = IF raises THEN {"membership"} ELSE {}
         /\ apc' = IF role = NoRole THEN "denied" ELSE "role"
    /\ alookups' = [m |-> 1, p |-> 0]
    /\ adecision' = NoDecision
    /\ UNCHANGED <<members, roleDefs, txvars, extvars>>

\* check_permission (service): the role's permissions, and the decision
CheckRole ==
    /\ apc = "role"
    /\ \E raises \in BOOLEAN :
         LET permissions == get_role_permissions(roleDefs, arole, raises) IN
         /\ araised' = IF raises THEN araised \cup {"role"} ELSE araised
         /\ IF HasPermission(permissions, acall.resource, acall.action)
            THEN /\ adecision' = Granted(acall.user, acall.org)
                 /\ apc' = "done"
            ELSE /\ adecision' = adecision
                 /\ apc' = "denied"
    /\ alookups' = [alookups EXCEPT !.p = @ + 1]
    /\ UNCHANGED <<members, roleDefs, acall, arole, txvars, extvars>>

\* authorize_request, permission refused: the membership is looked up again
\* for the error message
DenyLookup ==
    /\ apc = "denied"
    /\ \E raises \in BOOLEAN :
         LET role == get_user_role_in_organization(members, acall.user, acall.org, raises) IN
         /\ arole' = role
         /\ araised' = IF raises THEN araised \cup {"membership2"} ELSE araised
         /\ IF role = NoRole
            THEN /\ adecision' = Denied_NoMembership(acall.org)
                 /\ apc' = "done"
            ELSE /\ adecision' = adecision
                 /\ apc' = "denied_role"
    /\ alookups' = [alookups EXCEPT !.m = @ + 1]
    /\ UNCHANGED <<members, roleDefs, acall, txvars, extvars>>

\* authorize_request, permission refused to a member: the role's permissions
\* are looked up again for the log, then ForbiddenError names the role
DenyRole ==
    /\ apc = "denied_role"
    /\ \E raises \in BOOLEAN :
         araised' = IF raises THEN araised \cup {"role2"} ELSE araised
    /\ adecision' = Denied_Insufficient(arole, acall.action, acall.resource)
    /\ alookups' = [alookups EXCEPT !.p = @ + 1]
    /\ apc' = "done"
    /\ UNCHANGED <<members, roleDefs, acall, arole, txvars, extvars>>

NextAuth ==
    \/ \E u \in Users, o \in Orgs, res \in Resources, act \in Actions :
         AuthorizeRequest(u, o, res, act)
    \/ CheckRole
    \/ DenyLookup
    \/ DenyRole

SpecAuth == InitAuth /\ [][NextAuth]_vars

(* ------------------------ role administration -------------------------- *)

\* SecurityService.create_role: ConflictError when a definition is stored
\* under exactly this name; else the repository inserts it.  type: the
\* caller's, or the column default RoleType.ORGANIZATION; the definition has
\* no organization
create_role(n, bundle, type) ==
    /\ IF get_by_name(roleDefs, n) # Absent
       THEN /\ radmin' = [op |-> "create_role", exc |-> "ConflictError"]
            /\ UNCHANGED <<roleDefs, roleScope>>
       ELSE /\ radmin' = [op |-> "create_role", exc |-> "none"]
            /\ roleDefs' = [m \in DOMAIN roleDefs \cup {n} |->
                               IF m = n THEN bundle ELSE roleDefs[m]]
            /\ roleScope' = [m \in DOMAIN roleDefs \cup {n} |->
                                IF m = n THEN RoleScope(type, NoOrganization)
                                ELSE roleScope[m]]
    /\ UNCHANGED <<members, apc, acall, arole, araised, alookups, adecision,
                   rcall, ident, memberRows, mcall, txvars>>

\* SecurityService.create_organization_role: sets type and organization_id,
\* checks the name, then the repository builds SecurityRole(**role_data);
\* the mapped class has no organization_id attribute, so the constructor
\* raises TypeError and nothing is stored
create_organization_role(n, bundle, org) ==
    /\ radmin' = [op |-> "create_organization_role",
                  exc |-> IF get_by_name(roleDefs, n) # Absent
                          THEN "ConflictError" ELSE "TypeError"]
    /\ UNCHANGED <<roleDefs, roleScope>>
    /\ UNCHANGED <<members, apc, acall, arole, araised, alookups, adecision,
                   rcall, ident, memberRows, mcall, txvars>>

\* a call of AuthorizationService.get_role_permissions
GetRolePermissions(n) ==
    /\ \E raises \in BOOLEAN :
         rcall' = [called |-> TRUE, name |-> n, defs |-> roleDefs, raised |-> raises,
                   tried |-> IF raises THEN <<n>> ELSE NamesTried(roleDefs, n),
                   result |-> get_role_permissions(roleDefs, n, raises)]
    /\ UNCHANGED <<members, roleDefs, apc, acall, arole, araised, alookups,
                   adecision, roleScope, radmin, ident, memberRows, mcall, txvars>>

CreateRole ==
    \E n \in CreateNames, bundle \in CreateBundles, type \in RoleTypes :
        create_role(n, bundle, type)

CreateOrganizationRole ==
    \E n \in CreateNames, bundle \in CreateBundles, org \in Orgs :
        create_organization_role(n, bundle, org)

NextRoles ==
    \/ CreateRole
    \/ CreateOrganizationRole
    \/ \E n \in RequestNames : GetRolePermissions(n)

\* role administration and role-name resolution, from the seeded store
SpecRoles == Init /\ [][NextRoles]_vars

\* the memberships the scope specification starts from: the user is a
\* viewer of the first organization and an owner or no member of the second
InitScope ==
    /\ InitTx
    /\ InitGate
    /\ members \in { mem \in [Users \X Orgs -> {RoleValue("owner"), RoleValue("viewer"), NoRole}] :
                       \A u \in Users : mem[<<u, "o1">>] = RoleValue("viewer")
                                         /\ mem[<<u, "o2">>] # RoleValue("viewer") }
    /\ roleDefs = SeededRoleDefs
    /\ InitExt

NextScope ==
    \/ CreateRole
    \/ CreateOrganizationRole
    \/ \E u \in Users, o \in Orgs, res \in Resources, act \in Actions :
         AuthorizeRequest(u, o, res, act)
    \/ CheckRole
    \/ DenyLookup
    \/ DenyRole

\* role administration followed by authorization calls
SpecScope == InitScope /\ [][NextScope]_vars

(* ------------------------ membership calls --------------------------- *)

\* a slot may begin a call when it has none in progress
MayCall(r) == mcall[r].pc \in {"idle", "done"} /\ mcall[r].n < MaxCalls

\* what a membership call leaves alone
MemberUnchanged ==
    UNCHANGED <<txvars, roleDefs, apc, acall, arole, araised, alookups, adecision,
                roleScope, rcall, radmin, ident>>

\* OrganizationService.add_user_to_organization, its two lookups
AddCheck(r) ==
    /\ MayCall(r)
    /\ \E org \in CallOrgs, user \in Users, role \in AddRoles :
         LET e == add_user_to_organization_raises(memberRows, org, user) IN
         mcall' = [mcall EXCEPT ![r] =
                     [op |-> "add", pc |-> IF e = "none" THEN "insert" ELSE "done",
                      org |-> org, user |-> user, role |-> role,
                      seen |-> IF org \in Orgs THEN RoleInOrganization(memberRows, org, user)
                               ELSE NoRole,
                      exc |-> e, member |-> OrgUserRows(memberRows, org, user) # {},
                      changed |-> FALSE, n |-> mcall[r].n + 1]]
    /\ UNCHANGED <<memberRows, members>>
    /\ MemberUnchanged

\* OrganizationRepository.add_user_to_organization, called by the service
AddInsert(r) ==
    /\ mcall[r].op = "add" /\ mcall[r].pc = "insert"
    /\ LET row == OrganizationUser(mcall[r].org, mcall[r].user, mcall[r].role, <<r, mcall[r].n>>)
           res == repository_add_user_to_organization(memberRows, row) IN
       /\ memberRows' = res.rows
       /\ members' = MembersOf(res.rows)
       /\ mcall' = [mcall EXCEPT ![r].pc = "done", ![r].exc = res.exc,
                                 ![r].member = OrgUserRows(memberRows, row.org, row.user) # {},
                                 ![r].changed = res.rows # memberRows]
    /\ MemberUnchanged

\* OrganizationService.remove_user_from_organization, its lookup
RemoveCheck(r) ==
    /\ MayCall(r)
    /\ \E org \in CallOrgs, user \in Users :
         LET e == remove_user_from_organization_raises(memberRows, org, user) IN
         mcall' = [mcall EXCEPT ![r] =
                     [op |-> "remove", pc |-> IF e = "none" THEN "delete" ELSE "done",
                      org |-> org, user |-> user, role |-> NoRole,
                      seen |-> RoleInOrganization(memberRows, org, user),
                      exc |-> e, member |-> OrgUserRows(memberRows, org, user) # {},
                      changed |-> FALSE, n |-> mcall[r].n + 1]]
    /\ UNCHANGED <<memberRows, members>>
    /\ MemberUnchanged

\* OrganizationRepository.remove_user_from_organization, called by the
\* service
RemoveDelete(r) ==
    /\ mcall[r].op = "remove" /\ mcall[r].pc = "delete"
    /\ LET rows == repository_remove_user_from_organization(memberRows, mcall[r].org, mcall[r].user) IN
       /\ memberRows' = rows
       /\ members' = MembersOf(rows)
       /\ mcall' = [mcall EXCEPT ![r].pc = "done",
                                 ![r].member = OrgUserRows(memberRows, mcall[r].org, mcall[r].user) # {},
                                 ![r].changed = rows # memberRows]
    /\ MemberUnchanged

NextMember ==
    \E r \in Requests :
        \/ AddCheck(r)
        \/ AddInsert(r)
        \/ RemoveCheck(r)
        \/ RemoveDelete(r)

\* add and remove calls of two requests, each on its own session, from the
\* seeded store
SpecMember == Init /\ [][NextMember]_vars

NextRemove ==
    \E r \in Requests :
        \/ RemoveCheck(r)
        \/ RemoveDelete(r)

\* remove calls only, from a store where the user is a viewer of the first
\* organization and an owner or no member of the second
SpecRemove == InitScope /\ [][NextRemove]_vars

(* ------------------------ identity, then authorization ----------------- *)

\* the dependency get_current_user_id of a request: it returns the user id
\* or raises the HTTPException that ends the request
Identify ==
    /\ ident.pc = "idle"
    /\ \E h \in UserIdHeaders, s \in ServiceHeaders, c \in Credentials, a \in TokenAnswers :
         LET i == get_current_user_id(h, s, c, a) IN
         ident' = [pc |-> IF i.status = 200 THEN "identified" ELSE "rejected",
                   x_user_id |-> h, x_service |-> s, credentials |-> c, answer |-> a,
                   status |-> i.status, user |-> i.user, verified |-> i.verified]
    /\ UNCHANGED <<txvars, members, roleDefs, apc, acall, arole, araised, alookups,
                   adecision, roleScope, rcall, radmin, memberRows, mcall>>

\* check_permission (middleware): runs once its dependency has returned
\* current_user_id, and authorizes that id in the organization of the
\* x-organization-id header
CheckPermission ==
    /\ ident.pc = "identified"
    /\ \E o \in Orgs, res \in Resources, act \in Actions :
         AuthorizeRequest(ident.user, o, res, act)

NextIdent ==
    \/ Identify
    \/ CheckPermission
    \/ CheckRole
    \/ DenyLookup
    \/ DenyRole

\* one request through its identity dependency and the authorization gate;
\* the user is a viewer of the first organization and an owner or no member
\* of the second
SpecIdent == InitScope /\ [][NextIdent]_vars

(* ------------------------ properties: the gate -------------------------- *)

\* C9: a call for a (user, organization) pair that has no membership row
\* ends in the no-membership denial, whatever the resource, the action and
\* the role definitions
C9_NoMembershipDenied ==
    (apc = "done" /\ members[<<acall.user, acall.org>>] = NoRole)
        => adecision.kind = "NoMembership" /\ adecision.status = 403

\* C9 witness: such a call has ended, with role definitions in the store
\* that grant the requested action
C9_Witness_NonMemberDenied ==
    /\ apc = "done"
    /\ members[<<acall.user, acall.org>>] = NoRole
    /\ \E n \in DOMAIN roleDefs : <<acall.resource, acall.action>> \in roleDefs[n].grants
    /\ araised = {}

\* C10: for a member with role R, when the stores answer the lookups, the
\* gate returns the caller identity if and only if the action is in
\* permissions(R)[resource], and otherwise denies as insufficient permission
\* naming R
C10_GrantedIffPermitted ==
    LET R == members[<<acall.user, acall.org>>]
        permitted == <<acall.resource, acall.action>>
                        \in get_role_permissions(roleDefs, R, FALSE).grants IN
    (apc = "done" /\ R # NoRole /\ araised = {})
        => /\ permitted => adecision = Granted(acall.user, acall.org)
           /\ ~permitted => adecision = Denied_Insufficient(R, acall.action, acall.resource)

\* C10 witness: a viewer whose bundle is {workflows: [read]} was refused
\* (workflows, create)
C10_Witness_ViewerCreateDenied ==
    /\ apc = "done" /\ araised = {}
    /\ members[<<acall.user, acall.org>>] = RoleValue("viewer")
    /\ get_role_permissions(roleDefs, RoleValue("viewer"), FALSE) = ViewerBundle
    /\ acall.resource = "workflows" /\ acall.action = "create"
    /\ adecision.kind = "InsufficientPermission"

(* ------------------------ properties: the atomic unit ------------------ *)

\* no step of the list passes auto_commit=True
NoExplicitCommit(list) == \A i \in 1..Len(list) : list[i].ac # "commit"

IsServiceCall(o) == o.op = "create_agent_with_default_workflow"

\* a step (not the final commit) raised
StepRaised(r) == exc[r] # "none" /\ idx[r] <= Len(ops[r])

\* the final commit raised
CommitRaised(r) == exc[r] # "none" /\ idx[r] > Len(ops[r])

\* C1: once execute_atomic has ended because a step raised, nothing that the
\* call's steps wrote (create, update or delete) is persisted; stated for
\* lists in which no step asks for an immediate commit
C1_FailedUnitLeavesNoTrace ==
    \A r \in Requests :
        (kind[r] = "atomic" /\ pc[r] = "done" /\ StepRaised(r) /\ NoExplicitCommit(ops[r]))
            => effects[r] = EmptySession

\* C2: when every step of execute_atomic has succeeded, nothing the call
\* wrote was persisted before its last step had run: no reader can have seen
\* an earlier step's write without the later one; stated for lists in which
\* no step asks for an immediate commit
C2_NoPartialVisibility ==
    \A r \in Requests :
        (kind[r] = "atomic" /\ idx[r] > Len(ops[r]) /\ NoExplicitCommit(ops[r]))
            => \A i \in 1..(Len(visible[r]) - 1) : visible[r][i] = EmptySession

\* C3: after execute_atomic / db_transaction has returned or raised, the
\* transaction flag of its thread is inactive, on every exit path
C3_ContextInactiveAfterExit ==
    \A r \in Requests : pc[r] = "done" => ~active[thr[r]]

\* C3 witness: a call that ended because the final commit raised
C3_Witness_CommitRaised ==
    \E r \in Requests : pc[r] = "done" /\ CommitRaised(r) /\ Len(ops[r]) > 0

\* C4: whenever a request reaches a repository, the transaction flag it
\* observes is its own: active exactly when that request's own atomic unit
\* is open, whatever other requests in flight have set
C4_FlagScopedToRequest ==
    \A r \in Requests : \A s \in seen[r] : s.flag = s.own

\* C5: every repository write made without an explicit instruction defers
\* when the transaction flag is active and commits when it is inactive
C5_DefaultFollowsContext ==
    \A r \in Requests : \A e \in wlog[r] :
        e.ac = "default" => (e.committed <=> ~e.flag)

WorkflowStepRaised(r, i) ==
    /\ i = idx[r] /\ i <= Len(ops[r])
    /\ IsServiceCall(ops[r][i]) /\ ops[r][i].fail
    /\ exc[r] = "IntegrityError"

\* C7: after an execute_atomic call in which the default-workflow step of
\* the create-agent composite raised, no agent row of that attempt is
\* persisted
C7_NoAgentWithoutWorkflow ==
    \A r \in Requests : \A i \in 1..MaxSteps + 1 :
        (kind[r] = "atomic" /\ pc[r] = "done" /\ WorkflowStepRaised(r, i))
            => \A row \in committed : row.id # <<r, i, "agent">>

\* C7 witness: the workflow step raised after the agent had been created,
\* and the call has ended
C7_Witness_WorkflowRaised ==
    \E r \in Requests : \E i \in 1..MaxSteps + 1 :
        /\ kind[r] = "atomic" /\ pc[r] = "done" /\ WorkflowStepRaised(r, i)
        /\ \E e \in wlog[r] : e.w = "create" /\ e.flag
        /\ outcome[r].kind = "IntegrityViolation"

\* C8: execute_atomic runs the steps in submission order, one after the
\* other, and when all succeed returns what the last step returned
C8_StepsInOrderLastResult ==
    \A r \in Requests :
        kind[r] = "atomic" =>
            /\ \A j \in 1..Len(ran[r]) : ran[r][j] = j
            /\ outcome[r] = Ok =>
                 /\ Len(ran[r]) = Len(ops[r])
                 /\ result[r] = IF ops[r] = <<>> THEN RetNone ELSE rets[r][Len(ops[r])]

\* C8 witness: a two-step list has run to success and returned an entity
C8_Witness_TwoStepsDone ==
    \E r \in Requests :
        /\ kind[r] = "atomic" /\ outcome[r] = Ok /\ Len(ops[r]) = 2
        /\ ops[r][1] # ops[r][2]
        /\ result[r].k = "entity"

(* ------------------------ properties: role definitions ---------------- *)

\* the role the caller of the current authorization call holds
CallerRole == members[<<acall.user, acall.org>>]

\* C11: every permission the gate grants to a caller in organization O is in
\* the bundle of a definition for the caller's role that is a system role or
\* an organization role attached to O; no other definition contributes
C11_OnlyScopedRolesContribute ==
    (apc = "done" /\ adecision.kind = "granted")
        => \E n \in DOMAIN roleDefs :
              /\ n.w = CallerRole.w
              /\ <<acall.resource, acall.action>> \in roleDefs[n].grants
              /\ \/ roleScope[n].type = "system"
                 \/ roleScope[n].type = "organization" /\ roleScope[n].org = acall.org

\* the three spellings of the owner role
OwnerSpellings ==
    { RoleName("owner", "l", "l"), RoleName("owner", "U", "l"),
      RoleName("owner", "U", "U") }

C13_FallbackOrder ==
    (rcall.called /\ ~rcall.raised) =>
        LET n == rcall.name
            order == <<n, RoleName(n.w, "U", "l"), RoleName(n.w, "U", "U")>>
            hits == { i \in 1..3 : order[i] \in DOMAIN rcall.defs } IN
        \/ /\ hits = {}
           /\ rcall.tried = order
           /\ rcall.result = EmptyBundle
           /\ \A res \in Resources, act \in Actions :
                 ~HasPermission(rcall.result, res, act)
        \/ \E i \in hits :
              /\ \A j \in hits : i <= j
              /\ rcall.tried = SubSeq(order, 1, i)
              /\ rcall.result = rcall.defs[order[i]]

\* C13 witness: both "Owner" and "OWNER" are stored with different bundles,
\* "owner" was requested, and the capitalized form answered
C13_Witness_CapitalizedBeforeUpper ==
    /\ rcall.called /\ ~rcall.raised
    /\ rcall.name = RoleName("owner", "l", "l")
    /\ RoleName("owner", "l", "l") \notin DOMAIN rcall.defs
    /\ RoleName("owner", "U", "l") \in DOMAIN rcall.defs
    /\ rcall.defs[RoleName("owner", "U", "l")] = ViewerBundle
    /\ rcall.defs[RoleName("owner", "U", "U")] = FullBundle
    /\ rcall.result = ViewerBundle

(* ------------------------ properties: error mapping -------------------- *)

\* C14, as stated: every failure raised out of execute_atomic is a
\* ConflictError surfaced as Conflict (409), an IntegrityError surfaced as
\* IntegrityViolation (409), a DataError surfaced as InvalidData (400), or
\* anything else surfaced as Unexpected (500)
C14_EveryFailureMappedToTaxonomy ==
    \A r \in Requests :
        (kind[r] = "atomic" /\ pc[r] = "done" /\ exc[r] # "none") =>
            outcome[r] =
                CASE exc[r] = "ConflictError" -> [kind |-> "Conflict", status |-> 409]
                  [] exc[r] = "IntegrityError" -> [kind |-> "IntegrityViolation", status |-> 409]
                  [] exc[r] = "DataError" -> [kind |-> "InvalidData", status |-> 400]
                  [] OTHER -> [kind |-> "Unexpected", status |-> 500]

\* C14, amended: the same, except that an HTTPException raised by a step is
\* re-raised as it is, with the status it was raised with
C14_EveryFailureMappedOrPassedThrough ==
    \A r \in Requests :
        (kind[r] = "atomic" /\ pc[r] = "done" /\ exc[r] # "none") =>
            outcome[r] =
                CASE exc[r] = "ConflictError" -> [kind |-> "Conflict", status |-> 409]
                  [] exc[r] = "IntegrityError" -> [kind |-> "IntegrityViolation", status |-> 409]
                  [] exc[r] = "DataError" -> [kind |-> "InvalidData", status |-> 400]
                  [] exc[r] = "HTTPException" -> [kind |-> "NotFound", status |-> 404]
                  [] OTHER -> [kind |-> "Unexpected", status |-> 500]

\* C14 witness: a DataError raised by the second step, after a create, was
\* surfaced as InvalidData
C14_Witness_DataErrorMapped ==
    \E r \in Requests :
        /\ kind[r] = "atomic" /\ pc[r] = "done"
        /\ exc[r] = "DataError" /\ Len(ran[r]) = 2
        /\ outcome[r] = [kind |-> "InvalidData", status |-> 400]

\* C15: the message the caller receives for a failure of kind
\* IntegrityViolation or Unexpected is one of the fixed texts, whatever the
\* text of the underlying exception
C15_NoInternalDetailSurfaced ==
    \A r \in Requests :
        (/\ kind[r] = "atomic" /\ pc[r] = "done"
         /\ outcome[r].kind \in {"IntegrityViolation", "Unexpected"})
            => detail[r] \in GenericMessages /\ detail[r] # etext[r]

(* ------------------------ properties: concurrent creation -------------- *)

\* the list creates the role named "n" exactly once
CreatesRoleOnce(list) ==
    Cardinality({ i \in 1..Len(list) : list[i].op = "create_role" }) = 1

\* the call failed, and not in its creation of the role: in another step
\* or at its final commit
FailedElsewhere(r) ==
    /\ exc[r] # "none"
    /\ ~(idx[r] <= Len(ops[r]) /\ ops[r][idx[r]].op = "create_role")

C17_NoAuthorizationWithoutVerifiedIdentity ==
    (alookups.m > 0 \/ alookups.p > 0) => ident.verified

\* C18: at most one membership row is stored for each (user, organization),
\* and an add call that ends while the user is a member raises and leaves
\* the table as it was
C18_MembershipUnique ==
    /\ \A org \in Orgs, user \in Users :
          Cardinality(OrgUserRows(memberRows, org, user)) <= 1
    /\ \A r \in Requests :
          (mcall[r].op = "add" /\ mcall[r].pc = "done" /\ mcall[r].member)
              => mcall[r].exc # "none" /\ ~mcall[r].changed

\* C18 witness: an add passed its lookup, another add of the same pair
\* committed first, and the store refused the second row
C18_Witness_ConcurrentAddRefused ==
    \E r \in Requests :
        /\ mcall[r].op = "add" /\ mcall[r].pc = "done"
        /\ mcall[r].seen = NoRole /\ mcall[r].member
        /\ mcall[r].exc = "IntegrityError"
        /\ Cardinality(OrgUserRows(memberRows, mcall[r].org, mcall[r].user)) = 1

IsPrefix(s, t) == Len(s) <= Len(t) /\ \A i \in 1..Len(s) : s[i] = t[i]

CommitPath == <<"Active", "Committing", "Closed">>

RollbackPath == <<"Active", "RollingBack", "Closed">>

FailedCommitPath == <<"Active", "Committing", "RollingBack", "Closed">>

\* C20: every execute_atomic call is on the path Active, Committing, Closed
\* or on the path Active, RollingBack, Closed
C20_OnlyTwoPaths ==
    \A r \in Requests :
        kind[r] = "atomic"
            => IsPrefix(phases[r], CommitPath) \/ IsPrefix(phases[r], RollbackPath)

\* C20, amended: every execute_atomic call is on one of three paths, and
\* when it has ended its path was Active, Committing, Closed if nothing
\* raised, Active, RollingBack, Closed if a step raised, and Active,
\* Committing, RollingBack, Closed if the commit raised; no commit follows
\* a rollback
C20_PathsFollowOutcome ==
    \A r \in Requests :
        kind[r] = "atomic"
            => /\ \/ IsPrefix(phases[r], CommitPath)
                  \/ IsPrefix(phases[r], RollbackPath)
                  \/ IsPrefix(phases[r], FailedCommitPath)
               /\ pc[r] = "done"
                    => /\ exc[r] = "none" <=> phases[r] = CommitPath
                       /\ StepRaised(r) <=> phases[r] = RollbackPath
                       /\ CommitRaised(r) <=> phases[r] = FailedCommitPath

\* C20 witness: a call whose commit raised has rolled back and closed
C20_Witness_RollbackAfterCommit ==
    \E r \in Requests :
        /\ kind[r] = "atomic" /\ pc[r] = "done"
        /\ CommitRaised(r)
        /\ phases[r] = FailedCommitPath

(* ------------------------ properties: commits and steps --------------- *)

\* C21: a call whose steps asked for no immediate commit commits its
\* session once when every step succeeded and the commit went through, and
\* not at all when a step raised
C21_CommitsOnceOrNever ==
    \A r \in Requests :
        (kind[r] = "atomic" /\ pc[r] = "done" /\ NoExplicitCommit(ops[r]))
            => /\ exc[r] = "none" => commits[r] = 1
               /\ StepRaised(r) => commits[r] = 0

\* C22: in one execute_atomic call no step is invoked twice, and when a
\* step has raised it is the last one invoked: the steps after it in the
\* list have not run
C22_NoRetryAbortOnFailure ==
    \A r \in Requests :
        kind[r] = "atomic"
            => /\ \A j \in 1..Len(ran[r]), k \in 1..Len(ran[r]) :
                    j # k => ran[r][j] # ran[r][k]
               /\ StepRaised(r)
                    => /\ Len(ran[r]) = idx[r]
                       /\ \A j \in 1..Len(ran[r]) : ran[r][j] <= idx[r]

\* C22 witness: the first step of a two-step list raised, the call has
\* ended, and the second step was never invoked
C22_Witness_LaterStepSkipped ==
    \E r \in Requests :
        /\ kind[r] = "atomic" /\ pc[r] = "done" /\ StepRaised(r)
        /\ idx[r] = 1 /\ Len(ops[r]) = 2
        /\ ran[r] = <<1>>

(* ------------------------ properties: the gate's work and denials ----- *)

\* C23: one authorization call makes at most one membership lookup and at
\* most one role-permissions lookup
C23_AtMostOneLookupEach ==
    alookups.m <= 1 /\ alookups.p <= 1

C25_FailsClosed ==
    araised # {}
        => /\ adecision.kind # "granted"
           /\ apc = "done"
                => /\ adecision.kind \in {"NoMembership", "InsufficientPermission"}
                   /\ adecision.status = 403

\* C25 witness: the owner, whose role grants everything, was denied because
\* the first membership lookup raised
C25_Witness_OwnerDeniedOnError ==
    /\ apc = "done"
    /\ "membership" \in araised
    /\ CallerRole = RoleValue("owner")
    /\ HasPermission(get_role_permissions(roleDefs, CallerRole, FALSE),
                     acall.resource, acall.action)
    /\ adecision.status = 403

(* ------------------------ properties: nesting and commit failure ------ *)

\* a step of r that opened a db_transaction of its own has returned
NestedReturned(r) ==
    \E j \in 1..Len(ran[r]) :
        /\ OpensTransaction(ops[r][ran[r][j]])
        /\ j <= Len(rets[r])

\* C26: while an outer execute_atomic is still running its steps after a
\* nested block has exited, its thread's flag is active, its session has
\* not been committed or closed, and every write it made deferred
C26_OuterContextSurvivesNested ==
    \A r \in Requests :
        (kind[r] = "atomic" /\ pc[r] = "active" /\ NestedReturned(r))
            => /\ active[thr[r]]
               /\ commits[r] = 0
               /\ \A i \in 1..Len(phases[r]) : phases[r][i] # "Closed"
               /\ \A e \in wlog[r] : e.flag /\ ~e.committed

\* C27: when the final commit of an execute_atomic call raised, and no step
\* had asked for an immediate commit, the session holds nothing, the flag is
\* cleared, nothing the call wrote or removed is persisted, and the caller
\* receives IntegrityViolation or InvalidData
C27_CommitFailureLeavesNothing ==
    \A r \in Requests :
        (kind[r] = "atomic" /\ pc[r] = "done" /\ CommitRaised(r) /\ NoExplicitCommit(ops[r]))
            => /\ sess[r] = EmptySession
               /\ ~active[thr[r]]
               /\ effects[r] = EmptySession
               /\ \/ outcome[r] = [kind |-> "IntegrityViolation", status |-> 409]
                  \/ outcome[r] = [kind |-> "InvalidData", status |-> 400]

(* ------------------------ properties: composites outside a unit ------- *)

\* C28: once a call of create_agent_with_default_workflow has ended, on any
\* call path, the agent it created is persisted only together with its
\* default workflow, and the workflow only together with the agent
C28_AgentAndWorkflowTogether ==
    \A r \in Requests :
        pc[r] = "done"
            => /\ \A a \in committed :
                    a.id = <<r, 1, "agent">>
                        => \E w \in committed : w.tbl = "workflows" /\ w.ref = a.id
               /\ \A w \in committed :
                    w.id = <<r, 1, "workflow">>
                        => \E a \in committed : a.tbl = "ai_agents" /\ a.id = w.ref

\* C29: once a request that called create_organization has ended, every
\* organization it persisted has exactly one owner membership
C29_OrganizationHasItsOwner ==
    \A r \in Requests :
        pc[r] = "done"
            => \A o \in committed :
                  (o.tbl = "organizations" /\ o.id[1] = r)
                      => Cardinality({ m \in committed :
                                         /\ m.tbl = "organization_users"
                                         /\ m.ref = o.id
                                         /\ m.name = "owner" }) = 1

(* ------------------------ properties: explicit commit instruction ----- *)

\* the step r is about to run is a create, or an update of an entity that
\* is there
WritingStep(r) ==
    /\ idx[r] <= Len(ops[r])
    /\ \/ ops[r][idx[r]].op = "create"
       \/ /\ ops[r][idx[r]].op = "update"
          /\ get_by_id(DbOf(r), ops[r][idx[r]].id) # {}

\* C30: a create or update given auto_commit=True under the active context
\* commits the session at once, persisting what the unit had flushed; given
\* auto_commit=False with the context inactive it only flushes; and one that
\* fails in deferred mode neither commits nor rolls back
C30_ExplicitInstructionOverrides ==
    [][\A r \in Requests :
         (ran'[r] # ran[r] /\ WritingStep(r))
            => LET o == ops[r][idx[r]]
                   flag == active[thr[r]]
                   ok == exc'[r] = "none"
                   deferred == o.ac = "defer" \/ (o.ac = "default" /\ flag) IN
               /\ (o.ac = "commit" /\ flag /\ ok)
                     => /\ commits'[r] = commits[r] + 1
                        /\ sess'[r] = EmptySession
                        /\ sess[r].adds \subseteq committed'
               /\ (o.ac = "defer" /\ ~flag /\ ok)
                     => /\ commits'[r] = commits[r]
                        /\ committed' = committed
                        /\ sess[r].adds \subseteq sess'[r].adds
                        /\ sess'[r].adds # {}
               /\ (deferred /\ ~ok)
                     => /\ commits'[r] = commits[r]
                        /\ committed' = committed
                        /\ sess'[r] = sess[r]]_vars

\* C30 witness: inside an atomic unit a create that deferred was followed by
\* a create with auto_commit=True, and both rows are persisted while the
\* unit is still open
C30_Witness_EarlierWritePersisted ==
    \E r \in Requests :
        /\ kind[r] = "atomic" /\ pc[r] = "active"
        /\ Len(ops[r]) = 2 /\ Len(ran[r]) = 2
        /\ ops[r][1] = Op("create", "z", NoId, "default", FALSE)
        /\ ops[r][2] = Op("create", "z", NoId, "commit", FALSE)
        /\ commits[r] = 1
        /\ Cardinality(effects[r].adds) = 2

====
